---- MODULE Spec2Model ----
(***************************************************************************)
(* Collision / subdivision simulation of src/portfolioMilestone.js         *)
(* (the spatial-grid variant, lines 466-1585).                             *)
(*                                                                         *)
(* Units.  Lengths and velocities are integers in units of 0.001, angles   *)
(* and rotation speeds in units of 0.0001 rad, colour channels in units of *)
(* 1/ColorScale, colour steps in units of the step delta 0.005.  Entity    *)
(* index k of the JavaScript arrays is index k+1 of the sequences here.    *)
(* Arithmetic is exact: IEEE rounding of the doubles is not modelled,      *)
(* except that the colour blend rounds to the nearest representable value. *)
(***************************************************************************)
EXTENDS Integers, Sequences, FiniteSets, TLC

VARIABLES positions, directions, angles, speeds, colors, grid,
          animationPaused, pending, started,
          randomState, ticks, syncs, meta, lastOp, pauseSnap, syncedInPause,
          config, spatialGrid

vars == <<positions, directions, angles, speeds, colors, grid,
          animationPaused, pending, started,
          randomState, ticks, syncs, meta, lastOp, pauseSnap, syncedInPause,
          config, spatialGrid>>

----------------------------------------------------------------------------
(* Bounds of the model *)
MaxTicks == 4
MaxSyncs == 1
MaxPending == 2

(* Program constants *)
cubeSize == 200
smallScale == 100
cellSize == 500
nearZ == -500
NumChildren == 8
StepsPerTransition == 200
ColorScale == 100
RandDen == 10
RngModulus == 100

boundary == [x |-> 1500, y |-> 1000, z |-> -4000]

Abs(n) == IF n < 0 THEN -n ELSE n

Max3(a, b, c) == IF a >= b /\ a >= c THEN a ELSE IF b >= c THEN b ELSE c

CeilDiv(a, b) == (a + b - 1) \div b

(* new SpatialGrid(Math.max(boundary.x, boundary.y, |boundary.z|), 0.5) *)
worldSize == Max3(boundary.x, boundary.y, Abs(boundary.z))
gridSize == CeilDiv(worldSize * 2, cellSize)
gridLength == gridSize * gridSize * gridSize

(* Math.ceil(a / b) of the doubles a and b: the quotient is infinite or    *)
(* NaN when b is 0, and -0 counts as 0                                     *)
CeilQuotient(a, b) ==
    IF b = 0 THEN [finite |-> FALSE, value |-> 0]
    ELSE IF b > 0 THEN [finite |-> TRUE, value |-> -((-a) \div b)]
    ELSE [finite |-> TRUE, value |-> -(a \div (-b))]

(* the largest gridSize whose cube is a valid array length, below 2^32 *)
MaxArrayGridSize == 1625

(* new Array(n * n * n): a RangeError unless the length is an integer in   *)
(* 0 .. 2^32 - 1                                                           *)
ArrayLengthValid(n) == n.finite /\ n.value >= 0 /\ n.value <= MaxArrayGridSize

(* new SpatialGrid(worldSize, cellSize): the fields of the object, or the  *)
(* exception thrown by new Array                                           *)
SpatialGrid(ws, cs) ==
    LET size == CeilQuotient(ws * 2, cs)
    IN  IF ArrayLengthValid(size)
        THEN [thrown |-> FALSE, cellSize |-> cs, gridSize |-> size.value,
              cells |-> size.value * size.value * size.value]
        ELSE [thrown |-> TRUE, cellSize |-> cs, gridSize |-> 0, cells |-> 0]

(* const spatialGrid = new SpatialGrid(Math.max(...), cellSize) for the    *)
(* boundary b                                                              *)
NewSpatialGrid(b, cs) == SpatialGrid(Max3(b.x, b.y, Abs(b.z)), cs)

Unbuilt == [thrown |-> FALSE, cellSize |-> 0, gridSize |-> -1, cells |-> -1]

----------------------------------------------------------------------------
(* Math.random(): a deterministic generator whose seed the script cannot  *)
(* see.  The generator state x is advanced by a full-period linear         *)
(* congruential step; a draw is the numerator Draw(x) in 0..RandDen-1 of   *)
(* the value Draw(x)/RandDen of [0,1).                                     *)
NextRng(x) == (21 * x + 7) % RngModulus

Draw(x) == (x * RandDen) \div RngModulus

Seeds == {13, 42, 77}

RandVelocity(x) == x - (RandDen \div 2)

RandChannel(x) == (x * ColorScale) \div RandDen

(* getRandomColor(): three draws, alpha fixed at 1.0 *)
getRandomColor(rng) ==
    [color |-> << RandChannel(Draw(rng)), RandChannel(Draw(NextRng(rng))),
                  RandChannel(Draw(NextRng(NextRng(rng)))), ColorScale >>,
     rng |-> NextRng(NextRng(NextRng(rng)))]

----------------------------------------------------------------------------
(* SpatialGrid *)
(* the flattened index wrapped into the allocated range *)
getGridIndexWrapped(x, y, z) ==
    (((x + boundary.x) \div cellSize)
       + ((y + boundary.y) \div cellSize) * gridSize
       + ((z + Abs(boundary.z)) \div cellSize) * gridSize * gridSize)
    % (gridSize * gridSize * gridSize)

getGridIndex(x, y, z) ==
    LET gridX == (x + boundary.x) \div cellSize
        gridY == (y + boundary.y) \div cellSize
        gridZ == (z + Abs(boundary.z)) \div cellSize
    IN  gridX + gridY * gridSize + gridZ * gridSize * gridSize

CellOf(pos) == getGridIndex(pos.x, pos.y, pos.z)

(* the cell coordinates gridX, gridY, gridZ computed by getGridIndex *)
GridCoord(pos) ==
    [gridX |-> (pos.x + boundary.x) \div cellSize,
     gridY |-> (pos.y + boundary.y) \div cellSize,
     gridZ |-> (pos.z + Abs(boundary.z)) \div cellSize]

(* the index getGridIndex returns for cell coordinates c *)
Flattened(c) == c.gridX + c.gridY * gridSize + c.gridZ * gridSize * gridSize

InGrid(c) == c >= 0 /\ c < gridLength

(* updateGrid() without the test of the index against the array *)
updateGridUnchecked(pos) ==
    [c \in {CellOf(pos[i]) : i \in 1..Len(pos)} |->
        SelectSeq([i \in 1..Len(pos) |-> i], LAMBDA i : CellOf(pos[i]) = c)]

(* updateGrid(): every cell emptied, then each entity pushed, in index     *)
(* order, to the cell of its flattened index when that index is allocated. *)
(* Only the non-empty cells are represented.  The cell lists are built     *)
(* once per call: merging with the empty function leaves the value as it   *)
(* is and has TLC tabulate it instead of recomputing a cell at every read. *)
updateGrid(pos) ==
    LET n == Len(pos)
        cells == {CellOf(pos[i]) : i \in 1..n} \cap (0 .. (gridLength - 1))
        ids == [i \in 1..n |-> i]
        InCell(c, i) == CellOf(pos[i]) = c
    IN  [c \in cells |-> SelectSeq(ids, LAMBDA i : InCell(c, i))] @@ << >>

CellList(g, c) == IF c \in DOMAIN g THEN g[c] ELSE << >>

(* the 27 offsets in the order of the three nested loops: dx, dy, dz *)
Offsets ==
    [k \in 1..27 |-> [dx |-> ((k - 1) \div 9) - 1,
                      dy |-> (((k - 1) \div 3) % 3) - 1,
                      dz |-> ((k - 1) % 3) - 1]]

(* the scan without the cells of the layer dz = +1 *)
NeighborCellLowerLayers(g, gridIndex, cubeIndex, k) ==
    IF Offsets[k].dz <= 0
          /\ InGrid(gridIndex + Offsets[k].dx + Offsets[k].dy * gridSize
                      + Offsets[k].dz * gridSize * gridSize)
    THEN SelectSeq(CellList(g, gridIndex + Offsets[k].dx
                                 + Offsets[k].dy * gridSize
                                 + Offsets[k].dz * gridSize * gridSize),
                   LAMBDA idx : idx # cubeIndex)
    ELSE << >>

(* the k-th neighbouring cell with cubeIndex itself left in *)
NeighborCellWithSelf(g, gridIndex, cubeIndex, k) ==
    IF InGrid(gridIndex + Offsets[k].dx + Offsets[k].dy * gridSize
                + Offsets[k].dz * gridSize * gridSize)
    THEN CellList(g, gridIndex + Offsets[k].dx + Offsets[k].dy * gridSize
                       + Offsets[k].dz * gridSize * gridSize)
    ELSE << >>

(* the members, other than cubeIndex, of the k-th neighbouring cell; none  *)
(* when the neighbour's flattened index is not allocated                   *)
NeighborCell(g, gridIndex, cubeIndex, k) ==
    LET o == Offsets[k]
        neighborIndex == gridIndex + o.dx + o.dy * gridSize
                           + o.dz * gridSize * gridSize
    IN  IF InGrid(neighborIndex)
        THEN SelectSeq(CellList(g, neighborIndex), LAMBDA idx : idx # cubeIndex)
        ELSE << >>

(* the members of neighbouring cells lo..hi, in loop order *)
RECURSIVE ScanCells(_, _, _, _, _)
ScanCells(g, gridIndex, cubeIndex, lo, hi) ==
    IF lo = hi THEN NeighborCell(g, gridIndex, cubeIndex, lo)
    ELSE ScanCells(g, gridIndex, cubeIndex, lo, (lo + hi) \div 2)
           \o ScanCells(g, gridIndex, cubeIndex, ((lo + hi) \div 2) + 1, hi)

(* new Set(), add(), Array.from(): first occurrences, in insertion order *)
FirstOccurrences(s) == {k \in 1..Len(s) : \A j \in 1..(k - 1) : s[j] # s[k]}

KeepIndices(s, keep) ==
    IF keep = 1..Len(s) THEN s
    ELSE [m \in 1..Cardinality(keep) |->
            s[CHOOSE k \in keep : Cardinality({j \in keep : j <= k}) = m]]

SetOrder(s) == KeepIndices(s, FirstOccurrences(s))

getPotentialCollisions(g, pos, cubeIndex) ==
    SetOrder(ScanCells(g, CellOf(pos[cubeIndex]), cubeIndex, 1, 27))

----------------------------------------------------------------------------
(* The store during one handler: the five index-aligned arrays, the random *)
(* stream, and the per-entity history kept for the properties              *)
(* (born: tick of creation, parent, birth position, visits by the loop of  *)
(* the latest tick, overlapping candidates found for the entity in the     *)
(* latest tick, calls of splitCube made for the entity).                   *)
NewMeta(born, parent, pos) ==
    [born |-> born, parent |-> parent, birth |-> [x |-> pos.x, y |-> pos.y, z |-> pos.z],
     visits |-> 0, hits |-> 0, splits |-> 0]

(* the iteration with the sign on y chosen by bit 0 as well *)
PushChildBitZeroTwice(st, index, i, tick) ==
    LET originalPos == st.positions[index]
        xOffset == IF i % 2 = 1 THEN smallScale ELSE -smallScale
        yOffset == IF i % 2 = 1 THEN smallScale ELSE -smallScale
        zOffset == IF (i \div 4) % 2 = 1 THEN smallScale ELSE -smallScale
        child == [x |-> originalPos.x + xOffset,
                  y |-> originalPos.y + yOffset,
                  z |-> originalPos.z + zOffset,
                  hasSplit |-> TRUE]
        tgt == getRandomColor(st.rng)
        r1 == tgt.rng
        r2 == NextRng(r1)
        r3 == NextRng(r2)
    IN  [st EXCEPT
           !.positions = Append(@, child),
           !.angles = Append(@, st.angles[index]),
           !.speeds = Append(@, (st.speeds[index] * 12) \div 10),
           !.colors = Append(@, [current |-> st.colors[index].current,
                                 target |-> tgt.color,
                                 step |-> 0]),
           !.directions = Append(@, [dx |-> RandVelocity(Draw(r1)),
                                     dy |-> RandVelocity(Draw(r2)),
                                     dz |-> RandVelocity(Draw(r3))]),
           !.rng = NextRng(r3),
           !.meta = Append(@, NewMeta(tick, index, child))]

(* the iteration pushing the parent's angle twice *)
PushChildAngleTwice(st, index, i, tick) ==
    LET originalPos == st.positions[index]
        xOffset == IF i % 2 = 1 THEN smallScale ELSE -smallScale
        yOffset == IF (i \div 2) % 2 = 1 THEN smallScale ELSE -smallScale
        zOffset == IF (i \div 4) % 2 = 1 THEN smallScale ELSE -smallScale
        child == [x |-> originalPos.x + xOffset,
                  y |-> originalPos.y + yOffset,
                  z |-> originalPos.z + zOffset,
                  hasSplit |-> TRUE]
        tgt == getRandomColor(st.rng)
        r1 == tgt.rng
        r2 == NextRng(r1)
        r3 == NextRng(r2)
    IN  [st EXCEPT
           !.positions = Append(@, child),
           !.angles = Append(Append(@, st.angles[index]), st.angles[index]),
           !.speeds = Append(@, (st.speeds[index] * 12) \div 10),
           !.colors = Append(@, [current |-> st.colors[index].current,
                                 target |-> tgt.color,
                                 step |-> 0]),
           !.directions = Append(@, [dx |-> RandVelocity(Draw(r1)),
                                     dy |-> RandVelocity(Draw(r2)),
                                     dz |-> RandVelocity(Draw(r3))]),
           !.rng = NextRng(r3),
           !.meta = Append(@, NewMeta(tick, index, child))]

(* One iteration of the loop of splitCube: child number i in 0..7 *)
PushChild(st, index, i, tick) ==
    LET originalPos == st.positions[index]
        xOffset == IF i % 2 = 1 THEN smallScale ELSE -smallScale
        yOffset == IF (i \div 2) % 2 = 1 THEN smallScale ELSE -smallScale
        zOffset == IF (i \div 4) % 2 = 1 THEN smallScale ELSE -smallScale
        child == [x |-> originalPos.x + xOffset,
                  y |-> originalPos.y + yOffset,
                  z |-> originalPos.z + zOffset,
                  hasSplit |-> TRUE]
        tgt == getRandomColor(st.rng)
        r1 == tgt.rng
        r2 == NextRng(r1)
        r3 == NextRng(r2)
    IN  [st EXCEPT
           !.positions = Append(@, child),
           !.angles = Append(@, st.angles[index]),
           !.speeds = Append(@, (st.speeds[index] * 12) \div 10),
           !.colors = Append(@, [current |-> st.colors[index].current,
                                 target |-> tgt.color,
                                 step |-> 0]),
           !.directions = Append(@, [dx |-> RandVelocity(Draw(r1)),
                                     dy |-> RandVelocity(Draw(r2)),
                                     dz |-> RandVelocity(Draw(r3))]),
           !.rng = NextRng(r3),
           !.meta = Append(@, NewMeta(tick, index, child))]

(* the loop of splitCube with the bound i <= 8 *)
RECURSIVE SplitLoopInclusive(_, _, _, _)
SplitLoopInclusive(st, index, i, tick) ==
    IF i > NumChildren THEN st
    ELSE SplitLoopInclusive(PushChild(st, index, i, tick), index, i + 1, tick)

RECURSIVE SplitLoop(_, _, _, _)
SplitLoop(st, index, i, tick) ==
    IF i >= NumChildren THEN st
    ELSE SplitLoop(PushChild(st, index, i, tick), index, i + 1, tick)

(* splitCube with its loop started at child number 1 *)
splitCubeFromOne(st, index, tick) ==
    SplitLoop([st EXCEPT !.meta[index].splits = @ + 1], index, 1, tick)

(* splitCube taking the parent out of the arrays once its children exist *)
splitCubeReplacingParent(st, index, tick) ==
    LET counted == [st EXCEPT !.meta[index].splits = @ + 1]
        after == SplitLoop(counted, index, 0, tick)
        Without(seq) == SubSeq(seq, 1, index - 1) \o SubSeq(seq, index + 1, Len(seq))
    IN  [after EXCEPT !.positions = Without(@), !.angles = Without(@),
                      !.speeds = Without(@), !.colors = Without(@),
                      !.directions = Without(@), !.meta = Without(@)]

splitCube(st, index, tick) ==
    LET counted == [st EXCEPT !.meta[index].splits = @ + 1]
    IN  SplitLoop(counted, index, 0, tick)

Overlap(cube, other) ==
    /\ Abs(cube.x - other.x) < cubeSize
    /\ Abs(cube.y - other.y) < cubeSize
    /\ Abs(cube.z - other.z) < cubeSize

Negated(d) == [dx |-> -d.dx, dy |-> -d.dy, dz |-> -d.dz]

(* Respond without the assignment cube.hasSplit = true *)
RespondFlagNotSet(st, cubeIndex, tick) ==
    IF ~st.positions[cubeIndex].hasSplit
    THEN [st |-> splitCube(st, cubeIndex, tick), return |-> TRUE]
    ELSE [st |-> [st EXCEPT !.directions[cubeIndex] = Negated(@)],
          return |-> FALSE]

(* The response of checkCollisions to one overlapping candidate: the       *)
(* record after it, and whether the function returns.                      *)
Respond(st, cubeIndex, tick) ==
    IF ~st.positions[cubeIndex].hasSplit
    THEN [st |-> [splitCube(st, cubeIndex, tick)
                    EXCEPT !.positions[cubeIndex].hasSplit = TRUE],
          return |-> TRUE]
    ELSE [st |-> [st EXCEPT !.directions[cubeIndex] = Negated(@)],
          return |-> FALSE]

CollisionResponse(st, cubeIndex, tick) ==
    Respond([st EXCEPT !.meta[cubeIndex].hits = @ + 1], cubeIndex, tick)

RECURSIVE CollisionLoop(_, _, _, _, _)
(* the loop going on to the later candidates after a split, and returning  *)
(* true once they are examined                                             *)
AfterResponseContinuing(r, cubeIndex, candidates, k, tick) ==
    IF r.return
    THEN [st |-> CollisionLoop(r.st, cubeIndex, candidates, k + 1, tick).st,
          result |-> TRUE]
    ELSE CollisionLoop(r.st, cubeIndex, candidates, k + 1, tick)

(* the loop left after the first response, whichever it was *)
AfterResponseLeaving(r, cubeIndex, candidates, k, tick) ==
    [st |-> r.st, result |-> r.return]

AfterResponse(r, cubeIndex, candidates, k, tick) ==
    IF r.return THEN [st |-> r.st, result |-> TRUE]
    ELSE CollisionLoop(r.st, cubeIndex, candidates, k + 1, tick)

(* the loop negating the velocity of the overlapping candidate as well *)
CollisionLoopSymmetric(st, cubeIndex, candidates, k, tick) ==
    IF k > Len(candidates) THEN [st |-> st, result |-> FALSE]
    ELSE IF Overlap(st.positions[cubeIndex], st.positions[candidates[k]])
         THEN AfterResponse(
                  CollisionResponse(
                      [st EXCEPT !.directions[candidates[k]] = Negated(@)],
                      cubeIndex, tick),
                  cubeIndex, candidates, k, tick)
         ELSE CollisionLoop(st, cubeIndex, candidates, k + 1, tick)

CollisionLoop(st, cubeIndex, candidates, k, tick) ==
    IF k > Len(candidates) THEN [st |-> st, result |-> FALSE]
    ELSE IF Overlap(st.positions[cubeIndex], st.positions[candidates[k]])
         THEN AfterResponse(CollisionResponse(st, cubeIndex, tick),
                            cubeIndex, candidates, k, tick)
         ELSE CollisionLoop(st, cubeIndex, candidates, k + 1, tick)

checkCollisions(st, g, cubeIndex, tick) ==
    CollisionLoop(st, cubeIndex,
                  getPotentialCollisions(g, st.positions, cubeIndex), 1, tick)

(* checkCollisions of the variant without the grid: every index other than *)
(* cubeIndex is examined, in index order                                   *)
AllOthers(n, cubeIndex) ==
    SelectSeq([k \in 1..n |-> k], LAMBDA k : k # cubeIndex)

checkCollisionsAllPairs(st, cubeIndex, tick) ==
    CollisionLoop(st, cubeIndex, AllOthers(Len(st.positions), cubeIndex), 1, tick)

----------------------------------------------------------------------------
(* Colour transition *)
RoundDiv(a, b) == (2 * a + b) \div (2 * b)

(* the blend with the factor 1.02 *)
BlendPastTarget(current, target) ==
    current + RoundDiv((target - current) * 102, 100)

(* current + (target - current) * 0.02 *)
Blend(current, target) == current + RoundDiv((target - current) * 2, 100)

Retarget(colorObj, current, step, t, rng) ==
    IF step >= StepsPerTransition
    THEN [color |-> [current |-> current, target |-> t.color, step |-> 0],
          rng |-> t.rng]
    ELSE [color |-> [current |-> current, target |-> colorObj.target,
                     step |-> step],
          rng |-> rng]

updateColorTransition(colorObj, rng) ==
    Retarget(colorObj,
             [c \in 1..4 |->
                IF c <= 3 THEN Blend(colorObj.current[c], colorObj.target[c])
                ELSE colorObj.current[c]],
             colorObj.step + 1,
             getRandomColor(rng),
             rng)

----------------------------------------------------------------------------
(* render(): the body of the loop for entity i, and the loop *)
(* the checks negating the whole velocity when any coordinate is outside *)
BoundaryBounceAllAxes(pos, d) ==
    IF \/ pos.x > boundary.x \/ pos.x < -boundary.x
       \/ pos.y > boundary.y \/ pos.y < -boundary.y
       \/ pos.z > nearZ \/ pos.z < boundary.z
    THEN [dx |-> -d.dx, dy |-> -d.dy, dz |-> -d.dz]
    ELSE d

BoundaryBounce(pos, d) ==
    [dx |-> IF pos.x > boundary.x \/ pos.x < -boundary.x THEN -d.dx ELSE d.dx,
     dy |-> IF pos.y > boundary.y \/ pos.y < -boundary.y THEN -d.dy ELSE d.dy,
     dz |-> IF pos.z > nearZ \/ pos.z < boundary.z THEN -d.dz ELSE d.dz]

Integrate(pos, d) ==
    [pos EXCEPT !.x = @ + d.dx, !.y = @ + d.dy, !.z = @ + d.dz]

(* const color = colors[i]; updateColorTransition(color); *)
AdvanceColor(st, i, c) ==
    [st EXCEPT !.colors[i] = c.color, !.rng = c.rng, !.meta[i].visits = @ + 1]

(* angles[i] += speeds[i]; positions[i] += directions[i]; boundary checks *)
Move(st, i, moved) ==
    [st EXCEPT !.angles[i] = @ + st.speeds[i],
               !.positions[i] = moved,
               !.directions[i] = BoundaryBounce(moved, @)]

MoveEntity(st, i) == Move(st, i, Integrate(st.positions[i], st.directions[i]))

RenderEntity(st, g, i, tick) ==
    MoveEntity(
        checkCollisions(
            AdvanceColor(st, i, updateColorTransition(st.colors[i], st.rng)),
            g, i, tick).st,
        i)

(* the loop with its bound read once, before the first iteration *)
RECURSIVE RenderLoopFixedBound(_, _, _, _)
RenderLoopFixedBound(st, g, i, tick) ==
    IF i > Len(positions) THEN st
    ELSE RenderLoopFixedBound(RenderEntity(st, g, i, tick), g, i + 1, tick)

(* for (let i = 0; i < positions.length; i++): the bound is read again at  *)
(* every iteration                                                         *)
RECURSIVE RenderLoop(_, _, _, _)
RenderLoop(st, g, i, tick) ==
    IF i > Len(st.positions) THEN st
    ELSE RenderLoop(RenderEntity(st, g, i, tick), g, i + 1, tick)

----------------------------------------------------------------------------
(* Initial population *)
Pos(x, y, z) == [x |-> x, y |-> y, z |-> z, hasSplit |-> FALSE]

Dir(dx, dy, dz) == [dx |-> dx, dy |-> dy, dz |-> dz]

(* the population the script ships with *)
ShippedConfig ==
    [positions |-> << Pos(-500, 0, -2000), Pos(0, 0, -2500), Pos(500, 0, -3000),
                      Pos(-1000, 500, -2500), Pos(1000, -500, -2500),
                      Pos(0, 1000, -3500) >>,
     directions |-> << Dir(5, 3, 2), Dir(-4, 4, 3), Dir(3, -5, 4),
                       Dir(6, -4, 3), Dir(-5, 5, -2), Dir(4, 3, -4) >>,
     speeds |-> << 100, 200, 150, 170, 180, 160 >>]

(* other placements of the same literals: one cube alone, and pairs of     *)
(* cubes closer than cubeSize in the interior and next to the boundary     *)
PlacementConfigs ==
    { [positions |-> << Pos(0, 0, -2000) >>,
       directions |-> << Dir(5, 3, 2) >>,
       speeds |-> << 100 >>],
      [positions |-> << Pos(0, 0, -2000), Pos(100, 50, -2050) >>,
       directions |-> << Dir(5, 3, 2), Dir(-4, 4, 3) >>,
       speeds |-> << 100, 200 >>],
      [positions |-> << Pos(0, 0, -2000), Pos(-196, 0, -2000) >>,
       directions |-> << Dir(5, 3, 2), Dir(-4, 4, 3) >>,
       speeds |-> << 100, 200 >>],
      [positions |-> << Pos(1450, 950, -3950), Pos(1400, 900, -3900) >>,
       directions |-> << Dir(5, 3, 2), Dir(-4, 4, 3) >>,
       speeds |-> << 100, 200 >>],
      [positions |-> << Pos(-1450, -950, -550), Pos(-1400, -900, -600) >>,
       directions |-> << Dir(3, -5, 4), Dir(6, -4, 3) >>,
       speeds |-> << 150, 170 >>] }

Configs == {ShippedConfig} \cup PlacementConfigs

(* colors = Array.from({length}, ...): six draws for each entity *)
RECURSIVE InitColors(_, _, _)
InitColors(n, acc, x) ==
    IF n = 0 THEN [colors |-> acc, rng |-> x]
    ELSE InitColors(n - 1,
                    Append(acc, [current |-> getRandomColor(x).color,
                                 target |-> getRandomColor(getRandomColor(x).rng).color,
                                 step |-> 0]),
                    getRandomColor(getRandomColor(x).rng).rng)

Sim == [positions |-> positions, directions |-> directions, angles |-> angles,
        speeds |-> speeds, colors |-> colors, grid |-> grid, ticks |-> ticks]

Init ==
    \E cfg \in Configs, seed \in Seeds :
        /\ positions = cfg.positions
        /\ directions = cfg.directions
        /\ angles = [i \in 1..Len(cfg.positions) |-> 0]
        /\ speeds = cfg.speeds
        /\ colors = InitColors(Len(cfg.positions), << >>, seed).colors
        /\ randomState = InitColors(Len(cfg.positions), << >>, seed).rng
        /\ grid = << >>
        /\ animationPaused = FALSE
        /\ pending = 0
        /\ started = FALSE
        /\ ticks = 0
        /\ syncs = 0
        /\ meta = [i \in 1..Len(cfg.positions) |-> NewMeta(0, 0, cfg.positions[i])]
        /\ lastOp = "init"
        /\ pauseSnap = << >>
        /\ syncedInPause = FALSE
        /\ config = [boundary |-> boundary, cellSize |-> cellSize]
        /\ spatialGrid = NewSpatialGrid(boundary, cellSize)

----------------------------------------------------------------------------
(* render() when animationPaused is false: the grid is rebuilt, the loop   *)
(* runs, the next frame is requested.                                      *)
(* render() rebuilding the grid after its loop instead of before it *)
RenderResultRebuildLast ==
    LET st == RenderLoop([positions |-> positions, directions |-> directions,
                          angles |-> angles, speeds |-> speeds,
                          colors |-> colors, rng |-> randomState,
                          meta |-> [i \in 1..Len(meta) |->
                                     [meta[i] EXCEPT !.visits = 0, !.hits = 0]]],
                         IF ticks = 0 THEN updateGrid(positions) ELSE grid,
                         1, ticks + 1)
    IN  [grid |-> updateGrid(st.positions), st |-> st]

RenderResult ==
    LET g == updateGrid(positions)
        st == [positions |-> positions, directions |-> directions,
               angles |-> angles, speeds |-> speeds, colors |-> colors,
               rng |-> randomState,
               meta |-> [i \in 1..Len(meta) |->
                          [meta[i] EXCEPT !.visits = 0, !.hits = 0]]]
    IN  [grid |-> g, st |-> RenderLoop(st, g, 1, ticks + 1)]

render ==
    \E r \in {RenderResult} :
        /\ grid' = r.grid
        /\ positions' = r.st.positions
        /\ directions' = r.st.directions
        /\ angles' = r.st.angles
        /\ speeds' = r.st.speeds
        /\ colors' = r.st.colors
        /\ randomState' = r.st.rng
        /\ meta' = r.st.meta
        /\ ticks' = ticks + 1

NoRender ==
    UNCHANGED <<positions, directions, angles, speeds, colors, grid, randomState,
                meta,
                ticks>>

(* the call render() that ends the script *)
Start ==
    /\ ~started
    /\ started' = TRUE
    /\ render
    /\ pending' = pending + 1
    /\ lastOp' = "start"
    /\ UNCHANGED <<animationPaused, syncs, pauseSnap, syncedInPause,
                   config, spatialGrid>>

(* the callback without the test of animationPaused *)
FrameIgnoringPause ==
    /\ started
    /\ pending > 0
    /\ ticks < MaxTicks
    /\ render
    /\ pending' = pending
    /\ lastOp' = IF animationPaused THEN "pausedFrame" ELSE "frame"
    /\ UNCHANGED <<animationPaused, started, syncs, pauseSnap, syncedInPause,
                   config, spatialGrid>>

(* an animation-frame callback fires *)
Frame ==
    /\ started
    /\ pending > 0
    /\ IF animationPaused
       THEN /\ NoRender
            /\ pending' = pending - 1
            /\ lastOp' = "pausedFrame"
       ELSE /\ ticks < MaxTicks
            /\ render
            /\ pending' = pending
            /\ lastOp' = "frame"
    /\ UNCHANGED <<animationPaused, started, syncs, pauseSnap, syncedInPause,
                   config, spatialGrid>>

(* playPauseButton.onclick *)
PlayPause ==
    /\ started
    /\ animationPaused' = ~animationPaused
    /\ IF animationPaused
       THEN /\ ticks < MaxTicks
            /\ pending < MaxPending
            /\ render
            /\ pending' = pending + 1
            /\ lastOp' = "resume"
            /\ UNCHANGED <<pauseSnap, syncedInPause>>
       ELSE /\ NoRender
            /\ pending' = pending
            /\ lastOp' = "pause"
            /\ pauseSnap' = Sim
            /\ syncedInPause' = FALSE
    /\ UNCHANGED <<started, syncs, config, spatialGrid>>

(* colorSyncButton.onclick *)
RECURSIVE SyncColors(_, _, _, _)
SyncColors(cols, k, color, x) ==
    IF k > Len(cols) THEN [colors |-> cols, rng |-> x]
    ELSE SyncColors([cols EXCEPT ![k].current = color,
                                 ![k].target = getRandomColor(x).color],
                    k + 1, color, getRandomColor(x).rng)

(* the handler with one target generated for all entities *)
colorSyncSharedTarget(cols, x) ==
    [colors |-> [k \in 1..Len(cols) |->
                   [cols[k] EXCEPT !.current = getRandomColor(x).color,
                                   !.target = getRandomColor(getRandomColor(x).rng).color]],
     rng |-> getRandomColor(getRandomColor(x).rng).rng]

colorSync(cols, x) ==
    SyncColors(cols, 1, getRandomColor(x).color, getRandomColor(x).rng)

(* the handler clearing the flag of the first entity as well *)
ColorSyncClearingFlag ==
    /\ started
    /\ syncs < MaxSyncs
    /\ \E r \in {colorSync(colors, randomState)} :
          /\ colors' = r.colors
          /\ randomState' = r.rng
    /\ positions' = [positions EXCEPT ![1].hasSplit = FALSE]
    /\ syncs' = syncs + 1
    /\ lastOp' = "colorSync"
    /\ syncedInPause' = (syncedInPause \/ animationPaused)
    /\ UNCHANGED <<directions, angles, speeds, grid, meta, ticks,
                   animationPaused, pending, started, pauseSnap,
                   config, spatialGrid>>

ColorSync ==
    /\ started
    /\ syncs < MaxSyncs
    /\ \E r \in {colorSync(colors, randomState)} :
          /\ colors' = r.colors
          /\ randomState' = r.rng
    /\ syncs' = syncs + 1
    /\ lastOp' = "colorSync"
    /\ syncedInPause' = (syncedInPause \/ animationPaused)
    /\ UNCHANGED <<positions, directions, angles, speeds, grid, meta, ticks,
                   animationPaused, pending, started, pauseSnap,
                   config, spatialGrid>>

Next == Start \/ Frame \/ PlayPause \/ ColorSync

Spec == Init /\ [][Next]_vars

----------------------------------------------------------------------------
(* The program late in a colour transition: one cube alone whose current   *)
(* and target colours are any of a few colours with channels in [0,1] and  *)
(* whose step is one or two calls away from the retarget.                  *)
SomeColors ==
    { << 0, 0, 0, ColorScale >>, << ColorScale, ColorScale, ColorScale, ColorScale >>,
      << 0, ColorScale, 30, ColorScale >>, << 99, 1, 50, ColorScale >> }

LateSteps == {StepsPerTransition - 2, StepsPerTransition - 1}

InitColor ==
    \E cur \in SomeColors, tgt \in SomeColors, step \in LateSteps,
       seed \in {13, 42} :
        /\ positions = << Pos(0, 0, -2000) >>
        /\ directions = << Dir(5, 3, 2) >>
        /\ angles = << 0 >>
        /\ speeds = << 100 >>
        /\ colors = << [current |-> cur, target |-> tgt, step |-> step] >>
        /\ randomState = seed
        /\ grid = << >>
        /\ animationPaused = FALSE
        /\ pending = 0
        /\ started = FALSE
        /\ ticks = 0
        /\ syncs = 0
        /\ meta = << NewMeta(0, 0, Pos(0, 0, -2000)) >>
        /\ lastOp = "init"
        /\ pauseSnap = << >>
        /\ syncedInPause = FALSE
        /\ config = [boundary |-> boundary, cellSize |-> cellSize]
        /\ spatialGrid = NewSpatialGrid(boundary, cellSize)

ColorSpec == InitColor /\ [][Next]_vars

----------------------------------------------------------------------------
(* Initialisation of the spatial grid for any configuration: the script    *)
(* with other literals for boundary and for the cell size, up to the       *)
(* statement that constructs the grid.                                     *)
Extents == {-500, 0, 1500}

CellSizes == {-10000, -500, 0, 500}

InitConfig ==
    \E bx \in Extents, by \in Extents, bz \in {-4000, 0, 4000}, cs \in CellSizes :
        /\ config = [boundary |-> [x |-> bx, y |-> by, z |-> bz], cellSize |-> cs]
        /\ spatialGrid = Unbuilt
        /\ positions = ShippedConfig.positions
        /\ directions = ShippedConfig.directions
        /\ angles = [i \in 1..Len(ShippedConfig.positions) |-> 0]
        /\ speeds = ShippedConfig.speeds
        /\ colors = << >>
        /\ randomState = 0
        /\ grid = << >>
        /\ animationPaused = FALSE
        /\ pending = 0
        /\ started = FALSE
        /\ ticks = 0
        /\ syncs = 0
        /\ meta = << >>
        /\ lastOp = "init"
        /\ pauseSnap = << >>
        /\ syncedInPause = FALSE

(* const spatialGrid = new SpatialGrid(...) *)
Construct ==
    /\ spatialGrid = Unbuilt
    /\ spatialGrid' = NewSpatialGrid(config.boundary, config.cellSize)
    /\ lastOp' = "construct"
    /\ UNCHANGED <<positions, directions, angles, speeds, colors, grid,
                   animationPaused, pending, started, randomState, ticks,
                   syncs, meta, pauseSnap, syncedInPause, config>>

NextConfig == Construct

ConfigSpec == InitConfig /\ [][NextConfig]_vars

----------------------------------------------------------------------------
(* Coordinates as the script computes them: JavaScript numbers are IEEE    *)
(* binary64 values.  A value is a sign and a magnitude counted in units of *)
(* 2^-60, the magnitude written as four limbs of 16 bits, least            *)
(* significant first.  Every binary64 value below 16 in magnitude whose    *)
(* last bit weighs 2^-60 or more is such a number, among them every        *)
(* literal used here and every sum of two such values.                     *)
LimbBase == 2^16

MantissaBits == 53

MagZero == << 0, 0, 0, 0 >>

MagAdd(a, b) ==
    LET s1 == a[1] + b[1]
        s2 == a[2] + b[2] + (s1 \div LimbBase)
        s3 == a[3] + b[3] + (s2 \div LimbBase)
        s4 == a[4] + b[4] + (s3 \div LimbBase)
    IN  << s1 % LimbBase, s2 % LimbBase, s3 % LimbBase, s4 >>

(* a - b for a >= b *)
MagSub(a, b) ==
    LET d1 == a[1] - b[1]
        d2 == a[2] - b[2] - (IF d1 < 0 THEN 1 ELSE 0)
        d3 == a[3] - b[3] - (IF d2 < 0 THEN 1 ELSE 0)
        d4 == a[4] - b[4] - (IF d3 < 0 THEN 1 ELSE 0)
    IN  << d1 % LimbBase, d2 % LimbBase, d3 % LimbBase, d4 >>

MagLess(a, b) ==
    \E k \in 1..4 : a[k] < b[k] /\ \A h \in (k + 1)..4 : a[h] = b[h]

(* number of bits of a limb, and of a magnitude *)
LimbBits(n) == Cardinality({k \in 0..15 : 2^k <= n})

MagBits(m) ==
    IF m[4] > 0 THEN 48 + LimbBits(m[4])
    ELSE IF m[3] > 0 THEN 32 + LimbBits(m[3])
    ELSE IF m[2] > 0 THEN 16 + LimbBits(m[2])
    ELSE LimbBits(m[1])

(* rounding toward zero: the bits beyond the significand dropped *)
RoundTowardZero(m) ==
    IF MagBits(m) <= MantissaBits THEN m
    ELSE << m[1] - (m[1] % 2^(MagBits(m) - MantissaBits)), m[2], m[3], m[4] >>

(* The exact result rounded to the nearest value with a 53-bit             *)
(* significand, ties to the even one.  A magnitude has at most 64 bits, so *)
(* the bits dropped are in the lowest limb.                                *)
RoundToNearestEven(m) ==
    IF MagBits(m) <= MantissaBits THEN m
    ELSE LET q == 2^(MagBits(m) - MantissaBits)
             rem == m[1] % q
             down == << m[1] - rem, m[2], m[3], m[4] >>
             up == MagAdd(down, << q, 0, 0, 0 >>)
             odd == (m[1] \div q) % 2 = 1
         IN  IF 2 * rem > q \/ (2 * rem = q /\ odd) THEN up ELSE down

Double(neg, m) == [neg |-> neg /\ m # MagZero, mag |-> m]

(* a + b *)
DoubleAdd(a, b) ==
    IF a.neg = b.neg THEN Double(a.neg, RoundToNearestEven(MagAdd(a.mag, b.mag)))
    ELSE IF MagLess(a.mag, b.mag)
         THEN Double(b.neg, RoundToNearestEven(MagSub(b.mag, a.mag)))
         ELSE Double(a.neg, RoundToNearestEven(MagSub(a.mag, b.mag)))

(* -a, a - b, Math.abs(a), a < b *)
DoubleNeg(a) == Double(~a.neg, a.mag)

DoubleSub(a, b) == DoubleAdd(a, DoubleNeg(b))

DoubleAbs(a) == Double(FALSE, a.mag)

DoubleLess(a, b) ==
    IF a.neg /\ ~b.neg THEN TRUE
    ELSE IF ~a.neg /\ b.neg THEN FALSE
    ELSE IF a.neg THEN MagLess(b.mag, a.mag)
    ELSE MagLess(a.mag, b.mag)

(* the literals: k / 2 for the coordinates of the initial positions, and   *)
(* the binary64 values nearest to 0.1, 0.2 and 0.00k                       *)
Halves(k) == Double(k < 0, << 0, 0, 0, Abs(k) * 2^11 >>)

smallScaleDouble == Double(FALSE, << 39328, 39321, 39321, 409 >>)

cubeSizeDouble == Double(FALSE, << 13120, 13107, 13107, 819 >>)

Thousandths(k) ==
    Double(k < 0,
           CASE Abs(k) = 2 -> << 54526, 59768, 12582, 8 >>
             [] Abs(k) = 3 -> << 16253, 24117, 18874, 12 >>
             [] Abs(k) = 4 -> << 43516, 54001, 25165, 16 >>
             [] Abs(k) = 5 -> << 5243, 18350, 31457, 20 >>
             [] Abs(k) = 6 -> << 32506, 48234, 37748, 24 >>)

(* the entities the script starts with, in binary64 *)
DoublePositions ==
    [i \in 1..Len(ShippedConfig.positions) |->
        [x |-> Halves(ShippedConfig.positions[i].x \div 500),
         y |-> Halves(ShippedConfig.positions[i].y \div 500),
         z |-> Halves(ShippedConfig.positions[i].z \div 500),
         hasSplit |-> FALSE]]

DoubleDirections ==
    [i \in 1..Len(ShippedConfig.directions) |->
        [dx |-> Thousandths(ShippedConfig.directions[i].dx),
         dy |-> Thousandths(ShippedConfig.directions[i].dy),
         dz |-> Thousandths(ShippedConfig.directions[i].dz)]]

(* the overlap test of checkCollisions *)
OverlapDouble(cube, other) ==
    /\ DoubleLess(DoubleAbs(DoubleSub(cube.x, other.x)), cubeSizeDouble)
    /\ DoubleLess(DoubleAbs(DoubleSub(cube.y, other.y)), cubeSizeDouble)
    /\ DoubleLess(DoubleAbs(DoubleSub(cube.z, other.z)), cubeSizeDouble)

(* the position pushed by iteration i of the loop of splitCube *)
ChildPositionDouble(originalPos, i) ==
    LET xOffset == IF i % 2 = 1 THEN smallScaleDouble ELSE DoubleNeg(smallScaleDouble)
        yOffset == IF (i \div 2) % 2 = 1 THEN smallScaleDouble
                   ELSE DoubleNeg(smallScaleDouble)
        zOffset == IF (i \div 4) % 2 = 1 THEN smallScaleDouble
                   ELSE DoubleNeg(smallScaleDouble)
    IN  [x |-> DoubleAdd(originalPos.x, xOffset),
         y |-> DoubleAdd(originalPos.y, yOffset),
         z |-> DoubleAdd(originalPos.z, zOffset),
         hasSplit |-> TRUE]

(* updateColorTransition with the step kept in binary64: 0.005 is added,   *)
(* the channels are blended, and a step that has reached 1 is reset with a *)
(* new target.                                                             *)
StepDelta == Thousandths(5)

updateColorTransitionDouble(colorObj, rng) ==
    LET step == DoubleAdd(colorObj.step, StepDelta)
        current == [c \in 1..4 |->
                      IF c <= 3 THEN Blend(colorObj.current[c], colorObj.target[c])
                      ELSE colorObj.current[c]]
        t == getRandomColor(rng)
    IN  IF ~DoubleLess(step, Halves(2))
        THEN [color |-> [current |-> current, target |-> t.color,
                         step |-> Halves(0)],
              rng |-> t.rng]
        ELSE [color |-> [current |-> current, target |-> colorObj.target,
                         step |-> step],
              rng |-> rng]

(* One entity of the script followed in binary64: tick after tick its      *)
(* colour advances and it moves by its velocity, bouncing at the boundary, *)
(* and at some point splitCube is called for it.                           *)
MaxDrift == 201

InitDouble ==
    \E k \in 1..Len(ShippedConfig.positions) :
        /\ positions = << DoublePositions[k] >>
        /\ directions = << DoubleDirections[k] >>
        /\ angles = << 0 >>
        /\ speeds = << ShippedConfig.speeds[k] >>
        /\ colors = << [InitColors(1, << >>, 13 * k).colors[1]
                          EXCEPT !.step = Halves(0)] >>
        /\ randomState = InitColors(1, << >>, 13 * k).rng
        /\ grid = << >>
        /\ animationPaused = FALSE
        /\ pending = 0
        /\ started = FALSE
        /\ ticks = 0
        /\ syncs = 0
        /\ meta = << >>
        /\ lastOp = "init"
        /\ pauseSnap = << >>
        /\ syncedInPause = FALSE
        /\ config = [boundary |-> boundary, cellSize |-> cellSize]
        /\ spatialGrid = NewSpatialGrid(boundary, cellSize)

(* the boundary checks of render *)
BoundaryBounceDouble(pos, d) ==
    LET Outside(v, hi, lo) == DoubleLess(hi, v) \/ DoubleLess(v, lo)
        bx == Halves(boundary.x \div 500)
        by == Halves(boundary.y \div 500)
        bz == Halves(boundary.z \div 500)
        near == Halves(nearZ \div 500)
    IN  [dx |-> IF Outside(pos.x, bx, DoubleNeg(bx)) THEN DoubleNeg(d.dx) ELSE d.dx,
         dy |-> IF Outside(pos.y, by, DoubleNeg(by)) THEN DoubleNeg(d.dy) ELSE d.dy,
         dz |-> IF Outside(pos.z, near, bz) THEN DoubleNeg(d.dz) ELSE d.dz]

IntegrateDouble(pos, d) ==
    [pos EXCEPT !.x = DoubleAdd(@, d.dx),
                !.y = DoubleAdd(@, d.dy),
                !.z = DoubleAdd(@, d.dz)]

(* the body of the loop of render for the entity alone: no candidate, so   *)
(* updateColorTransition, positions[i] += directions[i], the boundary      *)
(* checks                                                                  *)
MoveDouble ==
    /\ Len(positions) = 1
    /\ ticks < MaxDrift
    /\ \E c \in {updateColorTransitionDouble(colors[1], randomState)} :
          /\ colors' = << c.color >>
          /\ randomState' = c.rng
    /\ positions' = << IntegrateDouble(positions[1], directions[1]) >>
    /\ directions' = << BoundaryBounceDouble(positions'[1], directions[1]) >>
    /\ angles' = << angles[1] + speeds[1] >>
    /\ ticks' = ticks + 1
    /\ lastOp' = "move"
    /\ UNCHANGED <<speeds, grid, animationPaused, pending, started, syncs,
                   meta, pauseSnap, syncedInPause, config, spatialGrid>>

(* splitCube(0); cube.hasSplit = true; as far as the positions go *)
SplitDouble ==
    /\ Len(positions) = 1
    /\ positions' = << [positions[1] EXCEPT !.hasSplit = TRUE] >>
                    \o [i \in 1..NumChildren |->
                           ChildPositionDouble(positions[1], i - 1)]
    /\ lastOp' = "split"
    /\ UNCHANGED <<directions, angles, speeds, colors, grid, animationPaused,
                   pending, started, randomState, ticks, syncs, meta, pauseSnap,
                   syncedInPause, config, spatialGrid>>

NextDouble == MoveDouble \/ SplitDouble

DoubleSpec == InitDouble /\ [][NextDouble]_vars

----------------------------------------------------------------------------
(* Properties *)
Entities == 1..Len(positions)

Initials == {i \in Entities : meta[i].parent = 0}

InitialCount == Cardinality(Initials)

ChildrenOf(p) == {i \in Entities : meta[i].parent = p}

(* C1: an entity is split at most once, never while its hasSplit is true,  *)
(* and an entity created by splitCube never splits: every entity has 8     *)
(* children per call of splitCube, at most one call, none for a child, and *)
(* a call leaves hasSplit true.                                            *)
SplitAtMostOnce ==
    \A i \in Entities :
        /\ meta[i].splits <= 1
        /\ meta[i].parent # 0 => (meta[i].splits = 0 /\ positions[i].hasSplit)
        /\ Cardinality(ChildrenOf(i)) = NumChildren * meta[i].splits
        /\ meta[i].splits = 1 => positions[i].hasSplit
        /\ (meta[i].parent = 0 /\ positions[i].hasSplit) => meta[i].splits = 1

(* an entity split in an earlier tick, and a child, each found overlapping *)
(* candidates in the latest tick, the child more than one                  *)
SplitEntityOverlapsAgain ==
    /\ \E i \in Initials :
          /\ meta[i].splits = 1
          /\ meta[i].hits >= 1
          /\ \A c \in ChildrenOf(i) : meta[c].born < ticks
    /\ \E c \in Entities : meta[c].parent # 0 /\ meta[c].hits >= 2

InsideBoundary(p) ==
    /\ p.x <= boundary.x /\ p.x >= -boundary.x
    /\ p.y <= boundary.y /\ p.y >= -boundary.y
    /\ p.z <= nearZ /\ p.z >= boundary.z

(* two entities, both unsplit, closer than cubeSize on every axis, have    *)
(* been through one tick                                                   *)
PairAfterOneTick ==
    /\ ticks = 1
    /\ InitialCount = 2
    /\ Overlap(meta[1].birth, meta[2].birth)
    /\ InsideBoundary(meta[1].birth) /\ InsideBoundary(meta[2].birth)

(* C3 as stated: after the tick the first entity has split and the         *)
(* population is 9.                                                        *)
PairSplitsToNine ==
    PairAfterOneTick =>
        /\ positions[1].hasSplit
        /\ Cardinality(ChildrenOf(1)) = NumChildren
        /\ Len(positions) = 9

(* C3 amended: after the tick the first entity has split into 8 children   *)
(* and has hasSplit true; the population is 10, or 18 when the second      *)
(* entity, at its own turn, still overlaps the moved first one and splits. *)
PairSplitsToTenOrEighteen ==
    PairAfterOneTick =>
        /\ positions[1].hasSplit
        /\ meta[1].splits = 1
        /\ ChildrenOf(1) = 3..10
        /\ positions[2].hasSplit <=> Overlap(positions[1], meta[2].birth)
        /\ Len(positions) = IF positions[2].hasSplit THEN 18 ELSE 10

(* the pair after one tick in which only the first entity split *)
PairOnlyFirstSplit ==
    PairAfterOneTick /\ Len(positions) = 10 /\ ~positions[2].hasSplit

(* C4: every child appended during the latest tick was visited by that     *)
(* tick's loop exactly once: its colour step advanced from 0 to 1, its     *)
(* collisions resolved, its angle advanced by its speed from the angle it  *)
(* inherited, its position one displacement away from its birth position.  *)
ChildrenVisitedInBirthTick ==
    \A i \in Entities :
        (meta[i].parent # 0 /\ meta[i].born = ticks) =>
            /\ meta[i].visits = 1
            /\ colors[i].step = 1
            /\ angles[i] = angles[meta[i].parent] - speeds[meta[i].parent]
                             + speeds[i]
            /\ Abs(positions[i].x - meta[i].birth.x) = Abs(directions[i].dx)
            /\ Abs(positions[i].y - meta[i].birth.y) = Abs(directions[i].dy)
            /\ Abs(positions[i].z - meta[i].birth.z) = Abs(directions[i].dz)

(* children were appended during the latest tick, one of them moving *)
ChildrenBornThisTick ==
    \E i \in Entities :
        /\ meta[i].parent # 0
        /\ meta[i].born = ticks
        /\ directions[i].dx # 0

(* C5 as stated: while paused, the whole simulation state (positions,      *)
(* velocities, angles, hasSplit flags, colours, grid, tick count) is the   *)
(* state that existed when pause was pressed, so the tick run by resume    *)
(* starts from exactly that state.                                         *)
PausePreservesEverything ==
    animationPaused => Sim = pauseSnap

(* C5 amended: while paused no tick runs and no animation-frame callback   *)
(* changes anything: positions, velocities, angles, speeds, hasSplit       *)
(* flags, grid and tick count are those of the moment pause was pressed,   *)
(* and so is the colour state unless the colour-reset button was pressed   *)
(* during the pause.                                                       *)
PausePreservesState ==
    animationPaused =>
        /\ positions = pauseSnap.positions
        /\ directions = pauseSnap.directions
        /\ angles = pauseSnap.angles
        /\ speeds = pauseSnap.speeds
        /\ grid = pauseSnap.grid
        /\ ticks = pauseSnap.ticks
        /\ ~syncedInPause => colors = pauseSnap.colors

(* an animation-frame callback has fired while paused *)
FrameFiredWhilePaused ==
    /\ animationPaused
    /\ lastOp = "pausedFrame"
    /\ ticks >= 2

(* the generator state after n further draws: the n-fold NextRng in closed *)
(* form, 21^n = 1 + 20n and 1 + 21 + ... + 21^(n-1) = n + 10n(n-1) modulo   *)
(* RngModulus                                                              *)
RngSkip(x, n) ==
    ((1 + 20 * n) * x + 7 * (n + 10 * n * (n - 1))) % RngModulus

(* C6: a colour reset gives every entity the one colour generated first    *)
(* by the handler as its current colour, and gives entity k the colour of  *)
(* its own later call of getRandomColor as its target.                     *)
ColorSyncOneColorOwnTargets ==
    [][syncs' = syncs + 1 =>
          /\ Len(colors') = Len(colors)
          /\ \A k \in 1..Len(colors') :
                /\ colors'[k].current = getRandomColor(randomState).color
                /\ colors'[k].target =
                      getRandomColor(RngSkip(randomState, 3 * k)).color]_vars

(* after a colour reset all current colours agree and two targets differ *)
ColorSyncDone ==
    /\ lastOp = "colorSync"
    /\ Len(colors) >= 2
    /\ \A i, j \in 1..Len(colors) : colors[i].current = colors[j].current
    /\ \E i, j \in 1..Len(colors) : colors[i].target # colors[j].target

(* C7: after a colour reset every entity's colour step is 0. *)
ColorSyncResetsStep ==
    lastOp = "colorSync" => \A k \in 1..Len(colors) : colors[k].step = 0

WithinCellSize(p, q) ==
    /\ Abs(p.x - q.x) <= cellSize
    /\ Abs(p.y - q.y) <= cellSize
    /\ Abs(p.z - q.z) <= cellSize

Range(seq) == UNION {{s[k] : k \in 1..Len(s)} : s \in {seq}}

(* the candidate sets of all entities on a grid rebuilt from the current   *)
(* positions                                                               *)
CandidatesAfterRebuild ==
    CHOOSE cand \in {[i \in Entities |->
                        Range(getPotentialCollisions(g, positions, i))] :
                     g \in {updateGrid(positions)}} : TRUE

(* C8 as stated: after a rebuild, of any two entities within cellSize of   *)
(* each other on every axis one is a candidate of the other, wherever      *)
(* they are.                                                               *)
GridCompleteEverywhere ==
    \A cand \in {CandidatesAfterRebuild} :
        \A i, j \in Entities :
            (i # j /\ WithinCellSize(positions[i], positions[j]))
                => (j \in cand[i] \/ i \in cand[j])

(* C8 amended: the same, for pairs of which at least one has its           *)
(* flattened grid index inside the allocated cell array; that one is a     *)
(* candidate of the other.                                                 *)
GridCompleteInGrid ==
    \A cand \in {CandidatesAfterRebuild} :
        \A i, j \in Entities :
            (i # j /\ WithinCellSize(positions[i], positions[j])
                   /\ InGrid(CellOf(positions[j])))
                => j \in cand[i]

(* a pair within cellSize, in different cell layers, one of them omitted   *)
(* from the grid, the other found by it                                    *)
OmittedEntityFindsNeighbour ==
    \E cand \in {CandidatesAfterRebuild} :
        \E i, j \in Entities :
            /\ i # j
            /\ WithinCellSize(positions[i], positions[j])
            /\ ~InGrid(CellOf(positions[i]))
            /\ InGrid(CellOf(positions[j]))
            /\ j \in cand[i]

(* C9: a coordinate beyond its bound at the end of a tick is moved back    *)
(* toward the inside by the following tick.                                *)
OvershootReversed ==
    [][(ticks >= 1 /\ ticks' = ticks + 1) =>
          \A i \in 1..Len(positions) :
              /\ positions[i].x > boundary.x => positions'[i].x < positions[i].x
              /\ positions[i].x < -boundary.x => positions'[i].x > positions[i].x
              /\ positions[i].y > boundary.y => positions'[i].y < positions[i].y
              /\ positions[i].y < -boundary.y => positions'[i].y > positions[i].y
              /\ positions[i].z > nearZ => positions'[i].z < positions[i].z
              /\ positions[i].z < boundary.z => positions'[i].z > positions[i].z]_vars

Excess(v, lo, hi) == IF v > hi THEN v - hi ELSE IF v < lo THEN lo - v ELSE 0

(* C10: every entity is inside the movement boundaries, up to an overshoot *)
(* of at most one tick's displacement on each axis.                        *)
ContainedByBoundary ==
    \A i \in Entities :
        /\ Excess(positions[i].x, -boundary.x, boundary.x) <= Abs(directions[i].dx)
        /\ Excess(positions[i].y, -boundary.y, boundary.y) <= Abs(directions[i].dy)
        /\ Excess(positions[i].z, boundary.z, nearZ) <= Abs(directions[i].dz)

(* the corner of the cube of half-size smallScale around p that child      *)
(* number k in 0..7 is placed at: bit 0 of k the sign on x, bit 1 on y,    *)
(* bit 2 on z                                                              *)
Corner(p, k) ==
    [x |-> p.x + (IF k % 2 = 1 THEN smallScale ELSE -smallScale),
     y |-> p.y + (IF (k \div 2) % 2 = 1 THEN smallScale ELSE -smallScale),
     z |-> p.z + (IF (k \div 4) % 2 = 1 THEN smallScale ELSE -smallScale)]

(* the indices at which the children of parent i were appended by the tick *)
(* of this step                                                            *)
BornNow(i) ==
    {c \in 1..Len(positions') : meta'[c].parent = i /\ meta'[c].born = ticks'}

(* C11: a call of splitCube for a parent at position p appends exactly 8   *)
(* entities, at consecutive indices, child number k created at the corner  *)
(* p + (+-s, +-s, +-s) whose signs are bits 0, 1, 2 of k, so that the 8    *)
(* corners are distinct, and every child is created with hasSplit true.    *)
SplitShape ==
    [][\A i \in 1..Len(positions) :
          meta'[i].splits = meta[i].splits + 1 =>
              /\ Cardinality(BornNow(i)) = NumChildren
              /\ \E first \in BornNow(i) :
                    /\ BornNow(i) = first .. (first + 7)
                    /\ \A k \in 0..7 :
                          /\ meta'[first + k].birth = Corner(positions[i], k)
                          /\ positions'[first + k].hasSplit
              /\ Cardinality({meta'[c].birth : c \in BornNow(i)}) = NumChildren]_vars

(* two parents have split in the latest tick, the second one's children    *)
(* appended after the first one's                                          *)
TwoSplitsInOneTick ==
    \E i, j \in Initials :
        /\ i < j
        /\ \E c \in ChildrenOf(i) : meta[c].born = ticks
        /\ \E c \in ChildrenOf(j) : meta[c].born = ticks


(* the entities stored in the cells of grid g *)
Stored(g) == UNION {Range(g[c]) : c \in DOMAIN g}

(* C12: an entity whose flattened index is negative or not less than the   *)
(* number of cells when the grid is rebuilt is stored in no cell, only     *)
(* allocated cells are written, and the tick runs to its end: every        *)
(* entity, the omitted one included, is visited once and the omitted one   *)
(* is moved by its velocity.                                               *)
OutOfRangeOmitted ==
    [][ticks' = ticks + 1 =>
          /\ DOMAIN grid' \subseteq 0 .. (gridLength - 1)
          /\ \A i \in 1..Len(positions) :
                ~InGrid(CellOf(positions[i])) =>
                    /\ i \notin Stored(grid')
                    /\ meta'[i].visits = 1
                    /\ positions'[i].x - positions[i].x \in
                          {directions[i].dx, -directions[i].dx}
                    /\ \A j \in 1..Len(positions') : meta'[j].visits = 1]_vars

(* an entity that existed when the latest tick rebuilt the grid was left   *)
(* out of it, and the tick visited it                                      *)
OmittedEntityTickCompleted ==
    /\ ticks >= 2
    /\ \E i \in Entities :
          /\ meta[i].born < ticks
          /\ i \notin Stored(grid)
          /\ meta[i].visits = 1


(* a cell coordinate of the entity at pos is below 0 or at least gridSize  *)
OutsideAllocatedGrid(pos) ==
    \E a \in {GridCoord(pos).gridX, GridCoord(pos).gridY, GridCoord(pos).gridZ} :
        a < 0 \/ a >= gridSize

(* C13 as stated: after a rebuild an entity with a cell coordinate outside *)
(* 0..gridSize-1 on some axis is stored in no cell and is a candidate of   *)
(* no other entity.                                                        *)
OutsideGridExcluded ==
    \A stored \in {Stored(updateGrid(positions))}, cand \in {CandidatesAfterRebuild} :
        \A i \in Entities :
            OutsideAllocatedGrid(positions[i]) =>
                /\ i \notin stored
                /\ \A j \in Entities \ {i} : i \notin cand[j]

(* C13 amended: such an entity is stored in no cell and is a candidate of  *)
(* no other entity when its flattened index is outside the cell array;     *)
(* when the flattened index is inside the array it is stored in the cell   *)
(* of that index, which belongs to another row or layer of the grid.       *)
OutsideGridExcludedByIndex ==
    \A g \in {updateGrid(positions)}, cand \in {CandidatesAfterRebuild} :
        \A i \in Entities :
            OutsideAllocatedGrid(positions[i]) =>
                IF Flattened(GridCoord(positions[i])) \in 0 .. (gridLength - 1)
                THEN /\ Flattened(GridCoord(positions[i])) \in DOMAIN g
                     /\ i \in Range(g[Flattened(GridCoord(positions[i]))])
                ELSE /\ i \notin Stored(g)
                     /\ \A j \in Entities \ {i} : i \notin cand[j]

(* an entity outside the grid on the z axis is left out of the rebuilt     *)
(* grid and is a candidate of nobody, while an entity within cubeSize of   *)
(* it is stored                                                            *)
OutsideGridEntityOmitted ==
    \E g \in {updateGrid(positions)} :
        \E i, j \in Entities :
            /\ GridCoord(positions[i]).gridZ < 0
            /\ ~InGrid(CellOf(positions[i]))
            /\ i \notin Stored(g)
            /\ j \in Stored(g)
            /\ Overlap(positions[i], positions[j])
            /\ i \notin Range(getPotentialCollisions(g, positions, j))

(* the world extent handed to the constructor *)
ConfigWorldSize ==
    Max3(config.boundary.x, config.boundary.y, Abs(config.boundary.z))

(* C14: constructing the grid with a non-positive cell size or a           *)
(* non-positive world extent throws, and a grid that was constructed has   *)
(* at least one cell.                                                      *)
BadConfigFailsFast ==
    lastOp = "construct" =>
        /\ (config.cellSize <= 0 \/ ConfigWorldSize <= 0) => spatialGrid.thrown
        /\ ~spatialGrid.thrown => spatialGrid.cells > 0


(* C15: every RGB channel of every current colour, and of every target,    *)
(* is within [0,1] and every alpha channel is 1.0, after any number of     *)
(* calls of updateColorTransition, retargets and colour resets.            *)
ColorsInRange ==
    \A i \in 1..Len(colors) :
        /\ \A c \in 1..3 :
              /\ colors[i].current[c] >= 0 /\ colors[i].current[c] <= ColorScale
              /\ colors[i].target[c] >= 0 /\ colors[i].target[c] <= ColorScale
        /\ colors[i].current[4] = ColorScale
        /\ colors[i].target[4] = ColorScale

(* the colour has been retargeted by a tick, reset by the handler, and     *)
(* advanced again toward a target it has not reached                       *)
RetargetedResetAndAdvanced ==
    /\ syncs >= 1
    /\ lastOp \in {"frame", "resume"}
    /\ \E i \in 1..Len(colors) :
          /\ colors[i].step >= 1
          /\ colors[i].step < ticks
          /\ colors[i].current # colors[i].target


BeyondX(p) == p.x > boundary.x \/ p.x < -boundary.x

BeyondY(p) == p.y > boundary.y \/ p.y < -boundary.y

BeyondZ(p) == p.z > nearZ \/ p.z < boundary.z

Coords(p) == [x |-> p.x, y |-> p.y, z |-> p.z]

(* the velocity with which entity i, present before the tick of this step, *)
(* is integrated by it: its velocity before the tick, negated once for     *)
(* every overlapping candidate found if it had split already               *)
VelocityIntegrated(i) ==
    IF positions[i].hasSplit /\ meta'[i].hits % 2 = 1
    THEN Negated(directions[i])
    ELSE directions[i]

(* C16: when, after integration, an entity is beyond its bound on one axis *)
(* and within bounds on the two others, the boundary checks negate the     *)
(* velocity component on that axis and leave the two other components and  *)
(* the integrated position as they are.                                    *)
BounceFlipsOneAxis ==
    [][ticks' = ticks + 1 =>
          \A i \in 1..Len(positions) :
              \A v \in {VelocityIntegrated(i)} :
                  /\ Coords(positions'[i]) = Coords(Integrate(positions[i], v))
                  /\ (BeyondX(positions'[i]) /\ ~BeyondY(positions'[i])
                         /\ ~BeyondZ(positions'[i]))
                        => directions'[i] = [v EXCEPT !.dx = -v.dx]
                  /\ (BeyondY(positions'[i]) /\ ~BeyondX(positions'[i])
                         /\ ~BeyondZ(positions'[i]))
                        => directions'[i] = [v EXCEPT !.dy = -v.dy]
                  /\ (BeyondZ(positions'[i]) /\ ~BeyondX(positions'[i])
                         /\ ~BeyondY(positions'[i]))
                        => directions'[i] = [v EXCEPT !.dz = -v.dz]]_vars

(* an entity present before the latest tick is beyond its bound on x only  *)
(* after it, and is moving on the three axes                               *)
BeyondOnOneAxis ==
    \E i \in Entities :
        /\ meta[i].born < ticks
        /\ BeyondX(positions[i])
        /\ ~BeyondY(positions[i]) /\ ~BeyondZ(positions[i])
        /\ directions[i].dx # 0 /\ directions[i].dy # 0 /\ directions[i].dz # 0


(* C17: no step removes an entity: none of the five arrays gets shorter,   *)
(* and the entity at index k before the step is the entity at index k      *)
(* after it, with the creation record and the rotation speed it had, its   *)
(* angle advanced by that speed if at all, and its position moved by at    *)
(* most its velocity.                                                      *)
EntitiesNeverDestroyed ==
    [][/\ Len(positions') >= Len(positions)
       /\ Len(angles') >= Len(angles)
       /\ Len(speeds') >= Len(speeds)
       /\ Len(colors') >= Len(colors)
       /\ Len(directions') >= Len(directions)
       /\ \A k \in 1..Len(positions) :
             /\ meta'[k].born = meta[k].born
             /\ meta'[k].parent = meta[k].parent
             /\ meta'[k].birth = meta[k].birth
             /\ speeds'[k] = speeds[k]
             /\ angles'[k] \in {angles[k], angles[k] + speeds[k]}
             /\ Abs(positions'[k].x - positions[k].x) <= Abs(directions[k].dx)
             /\ Abs(positions'[k].y - positions[k].y) <= Abs(directions[k].dy)
             /\ Abs(positions'[k].z - positions[k].z) <= Abs(directions[k].dz)]_vars

(* children created by an earlier tick are still there after later ticks,  *)
(* a colour reset and a pause followed by a resume                         *)
ChildrenSurviveControls ==
    /\ lastOp = "resume"
    /\ syncs >= 1
    /\ \E c \in Entities : meta[c].parent # 0 /\ meta[c].born + 2 <= ticks


(* C18: no step sets a true hasSplit back to false. *)
HasSplitMonotonic ==
    [][\A k \in 1..Len(positions) :
          positions[k].hasSplit => positions'[k].hasSplit]_vars

(* an initial entity that split in an earlier tick, and its children, have *)
(* their flag set after later ticks, a pause and a colour reset            *)
SplitFlagKeptThroughControls ==
    /\ syncs >= 1
    /\ animationPaused
    /\ \E i \in Initials :
          /\ positions[i].hasSplit
          /\ ChildrenOf(i) # {}
          /\ \A c \in ChildrenOf(i) :
                meta[c].born < ticks /\ positions[c].hasSplit


(* C19: the loop of a tick ends: it visits every entity exactly once, the  *)
(* entities appended during the tick included, and it appends at most 8    *)
(* entities for each entity that had not split when the tick began, so the *)
(* bound it re-reads stops growing.                                        *)
TickCompletes ==
    [][ticks' = ticks + 1 =>
          /\ \A j \in 1..Len(positions') : meta'[j].visits = 1
          /\ Len(meta') = Len(positions')
          /\ Len(positions') <=
                Len(positions)
                  + NumChildren
                      * Cardinality({i \in 1..Len(positions) :
                                        ~positions[i].hasSplit})]_vars

(* a tick run by the resume handler appended entities while its loop was   *)
(* running and ended                                                       *)
TickWithAppendsCompleted ==
    /\ lastOp = "resume"
    /\ \E c \in Entities : meta[c].parent # 0 /\ meta[c].born = ticks
    /\ \A j \in Entities : meta[j].visits = 1


(* the arrays as the loop of the next tick finds them *)
Store ==
    [positions |-> positions, directions |-> directions, angles |-> angles,
     speeds |-> speeds, colors |-> colors, rng |-> randomState, meta |-> meta]

(* C20: a tick of a population of one entity calls checkCollisions with no *)
(* candidate: it returns false, nothing splits, the population stays 1,    *)
(* the velocity reaches the integration unchanged and the position         *)
(* advances by exactly that velocity.                                      *)
LoneEntityJustMoves ==
    [][(Len(positions) = 1 /\ ticks' = ticks + 1) =>
          /\ getPotentialCollisions(updateGrid(positions), positions, 1) = << >>
          /\ ~checkCollisions(Store, updateGrid(positions), 1, ticks + 1).result
          /\ Len(positions') = 1
          /\ meta'[1].hits = 0 /\ meta'[1].splits = 0
          /\ ~positions'[1].hasSplit
          /\ positions'[1] = Integrate(positions[1], directions[1])
          /\ directions'[1] = BoundaryBounce(positions'[1], directions[1])]_vars

(* one entity alone has been through two ticks and is two velocities away  *)
(* from where it started                                                   *)
LoneEntityAfterTwoTicks ==
    /\ Len(positions) = 1
    /\ ticks = 2
    /\ positions[1].x = meta[1].birth.x + 2 * directions[1].dx
    /\ directions[1].dx # 0

(* C21: at most one animation-frame callback of render is requested and    *)
(* not yet fired, whatever the order of button clicks and callbacks.       *)
AtMostOnePendingRender ==
    pending <= 1

(* C22: the population is the initial population plus 8 for every initial  *)
(* entity whose hasSplit is true, hence at most nine times the initial     *)
(* population.                                                             *)
PopulationIsInitialPlusEightPerSplit ==
    /\ Len(positions)
         = InitialCount
             + NumChildren * Cardinality({i \in Initials : positions[i].hasSplit})
    /\ Len(positions) <= 9 * InitialCount

(* the simulation is paused while one initial entity has split and another *)
(* one has not                                                             *)
PopulationPartlySplit ==
    /\ animationPaused
    /\ \E i, j \in Initials : positions[i].hasSplit /\ ~positions[j].hasSplit

(* the arrays as the loop of the next tick starts with them *)
TickStore ==
    [Store EXCEPT !.meta = [i \in 1..Len(meta) |->
                              [meta[i] EXCEPT !.visits = 0, !.hits = 0]]]

(* the store at the call checkCollisions(i) of a tick *)
TurnStore(st, i) ==
    AdvanceColor(st, i, updateColorTransition(st.colors[i], st.rng))

(* the same decision to split or not, and the same velocity of entity i *)
SameOutcome(a, b, i) ==
    /\ a.result = b.result
    /\ a.st.directions[i] = b.st.directions[i]
    /\ Len(a.st.positions) = Len(b.st.positions)

(* the entities other than cubeIndex that are stored in some cell *)
StoredOthers(stored, n, cubeIndex) ==
    SelectSeq([k \in 1..n |-> k], LAMBDA k : k # cubeIndex /\ k \in stored)

(* at every turn of the tick run on store st with grid g, the grid-based   *)
(* checkCollisions and the all-pairs one give the same outcome             *)
RECURSIVE TurnsAgreeWithAllPairs(_, _, _, _)
TurnsAgreeWithAllPairs(st, g, i, tick) ==
    IF i > Len(st.positions) THEN TRUE
    ELSE \A ts \in {TurnStore(st, i)} :
           \A r \in {checkCollisions(ts, g, i, tick)} :
              /\ SameOutcome(r, checkCollisionsAllPairs(ts, i, tick), i)
              /\ TurnsAgreeWithAllPairs(MoveEntity(r.st, i), g, i + 1, tick)

(* the same, the all-pairs loop examining only the entities stored in g *)
RECURSIVE TurnsAgreeWithStoredPairs(_, _, _, _, _)
TurnsAgreeWithStoredPairs(st, g, stored, i, tick) ==
    IF i > Len(st.positions) THEN TRUE
    ELSE \A ts \in {TurnStore(st, i)} :
           \A r \in {checkCollisions(ts, g, i, tick)} :
              /\ SameOutcome(r,
                             CollisionLoop(ts, i,
                                           StoredOthers(stored, Len(ts.positions), i),
                                           1, tick),
                             i)
              /\ TurnsAgreeWithStoredPairs(MoveEntity(r.st, i), g, stored,
                                           i + 1, tick)

(* C23 as stated: at every entity's turn of a tick the grid-based          *)
(* checkCollisions decides to split or not, and leaves the entity's        *)
(* velocity, as the all-pairs checkCollisions does on the same store.      *)
GridAgreesWithAllPairs ==
    [][ticks' = ticks + 1 =>
          TurnsAgreeWithAllPairs(TickStore, updateGrid(positions), 1, ticks + 1)]_vars

(* C23 amended: at every entity's turn the grid-based checkCollisions      *)
(* gives the outcome of the all-pairs loop run over the entities that the  *)
(* rebuild of this tick stored in the grid; entities left out of the grid  *)
(* and entities appended during the tick are not seen.                     *)
GridAgreesWithStoredPairs ==
    [][ticks' = ticks + 1 =>
          \A g \in {updateGrid(positions)} :
              TurnsAgreeWithStoredPairs(TickStore, g, Stored(g), 1, ticks + 1)]_vars

(* in the latest tick an entity that existed before it bounced off         *)
(* overlapping candidates while entities appended by the same tick, absent *)
(* from the grid, were in the arrays                                       *)
TurnWithEntitiesOutsideGrid ==
    /\ \E i \in Entities :
          /\ meta[i].born < ticks
          /\ meta[i].parent # 0
          /\ meta[i].hits >= 1
    /\ \E c \in Entities : meta[c].born = ticks /\ c \notin Stored(grid)

(* C24: the grid is rebuilt by a tick only, once, from the positions the   *)
(* tick starts with: the entities appended during the tick are in no cell  *)
(* and are returned as candidates to no entity, existing or new, until the *)
(* next tick, and no other step changes the grid.                          *)
GridRebuiltOncePerTick ==
    [][IF ticks' = ticks + 1
       THEN /\ grid' = updateGrid(positions)
            /\ Stored(grid') \subseteq 1..Len(positions)
            /\ \A g \in {grid'}, pos \in {positions'} :
                  \A j \in 1..Len(pos) :
                      \A cand \in {getPotentialCollisions(g, pos, j)} :
                          \A k \in 1..Len(cand) : cand[k] <= Len(positions)
       ELSE grid' = grid]_vars

(* after the latest tick an initial entity that has not split overlaps a   *)
(* child appended by that tick                                             *)
UnsplitEntityOverlapsNewChild ==
    \E i \in Initials, c \in Entities :
        /\ ~positions[i].hasSplit
        /\ meta[c].born = ticks
        /\ meta[c].parent # 0
        /\ Overlap(positions[i], positions[c])
        /\ c \notin Stored(grid)

(* P holds of every turn of the tick run on store st with grid g: of the   *)
(* store ts at the call checkCollisions(i) and of what the call gives      *)
RECURSIVE EveryTurn(_, _, _, _, _)
EveryTurn(P(_, _, _, _), st, g, i, tick) ==
    IF i > Len(st.positions) THEN TRUE
    ELSE \A ts \in {TurnStore(st, i)} :
           \A r \in {checkCollisions(ts, g, i, tick)} :
              /\ P(ts, g, i, r)
              /\ EveryTurn(P, MoveEntity(r.st, i), g, i + 1, tick)

(* the candidates of entity i, in grid order, that overlap it in store ts *)
OverlappingCandidates(ts, g, i) ==
    SelectSeq(getPotentialCollisions(g, ts.positions, i),
              LAMBDA j : Overlap(ts.positions[i], ts.positions[j]))

(* the call returns true exactly for an entity with hasSplit false and an  *)
(* overlapping candidate; it then responded to one candidate only,         *)
(* appended NumChildren entities, set the flag and kept the velocity       *)
SplitOnFirstOverlap(ts, g, i, r) ==
    \A over \in {OverlappingCandidates(ts, g, i)} :
        /\ r.result <=> (~ts.positions[i].hasSplit /\ over # << >>)
        /\ r.result =>
              /\ Len(r.st.positions) = Len(ts.positions) + NumChildren
              /\ r.st.positions[i].hasSplit
              /\ r.st.directions[i] = ts.directions[i]
              /\ r.st.meta[i].hits = ts.meta[i].hits + 1
              /\ r.st.meta[i].splits = ts.meta[i].splits + 1

(* C25: at every turn of every tick, checkCollisions of an entity with     *)
(* hasSplit false that has an overlapping candidate responds to the first  *)
(* one only: eight entities appended, hasSplit set, true returned, the     *)
(* entity's velocity as before; and it returns true in no other case.      *)
UnsplitSplitsOnFirstOverlap ==
    [][ticks' = ticks + 1 =>
          \A g \in {updateGrid(positions)} :
              EveryTurn(SplitOnFirstOverlap, TickStore, g, 1, ticks + 1)]_vars

(* the latest tick split an initial entity, by one response, while the     *)
(* children of another entity, appended by an earlier tick, were in the    *)
(* arrays                                                                  *)
SplitWithSeveralOverlaps ==
    \E i \in Initials :
        /\ meta[i].splits = 1
        /\ meta[i].hits = 1
        /\ \E c \in Entities : meta[c].born = ticks /\ meta[c].parent = i
        /\ \E a \in Entities :
              /\ meta[a].born < ticks
              /\ meta[a].parent # 0
              /\ meta[a].parent # i

(* the velocity d negated once for each of k responses *)
NegatedTimes(d, k) ==
    IF k % 2 = 0 THEN d ELSE [dx |-> 0 - d.dx, dy |-> 0 - d.dy, dz |-> 0 - d.dz]

(* for an entity with hasSplit true the call returns false, appends        *)
(* nothing, and leaves the velocity negated once per overlapping candidate *)
SplitEntityNegatesPerOverlap(ts, g, i, r) ==
    ts.positions[i].hasSplit =>
        \A over \in {OverlappingCandidates(ts, g, i)} :
            /\ r.st.directions[i] = NegatedTimes(ts.directions[i], Len(over))
            /\ r.st.meta[i].hits = ts.meta[i].hits + Len(over)
            /\ Len(r.st.positions) = Len(ts.positions)
            /\ ~r.result

(* C26: at every turn of every tick, checkCollisions of an entity with     *)
(* hasSplit true leaves its velocity equal to the previous one times       *)
(* (-1)^k on the three components, k the number of its candidates that     *)
(* overlap it; it appends no entity and returns false.                     *)
SplitEntityVelocityParity ==
    [][ticks' = ticks + 1 =>
          \A g \in {updateGrid(positions)} :
              EveryTurn(SplitEntityNegatesPerOverlap, TickStore, g, 1, ticks + 1)]_vars

(* in the latest tick one entity responded to an even number of            *)
(* overlapping candidates, two or more, and another to an odd number       *)
EvenAndOddOverlapCounts ==
    \E i, j \in Entities :
        /\ meta[i].splits = 0 /\ meta[i].parent # 0
        /\ meta[j].splits = 0 /\ meta[j].parent # 0
        /\ meta[i].visits = 1 /\ meta[j].visits = 1
        /\ meta[i].hits >= 2 /\ meta[i].hits % 2 = 0
        /\ meta[j].hits % 2 = 1

(* the call for entity i leaves every other entity of the store as it was, *)
(* and of entity i changes at most the velocity, by negation, and the      *)
(* flag, from false to true                                                *)
OnlyCallerChanged(ts, g, i, r) ==
    /\ Len(r.st.positions) >= Len(ts.positions)
    /\ \A j \in 1..Len(ts.positions) :
          /\ Coords(r.st.positions[j]) = Coords(ts.positions[j])
          /\ r.st.angles[j] = ts.angles[j]
          /\ r.st.speeds[j] = ts.speeds[j]
          /\ r.st.colors[j] = ts.colors[j]
          /\ j # i => /\ r.st.directions[j] = ts.directions[j]
                      /\ r.st.positions[j].hasSplit = ts.positions[j].hasSplit
    /\ r.st.directions[i] \in {ts.directions[i], NegatedTimes(ts.directions[i], 1)}
    /\ ts.positions[i].hasSplit => r.st.positions[i].hasSplit

(* C27: at every turn of every tick, checkCollisions(i) changes the        *)
(* position, velocity, hasSplit, rotation and colour of no existing entity *)
(* other than i; to entity i it only negates the velocity or sets          *)
(* hasSplit, and otherwise it appends entities.                            *)
ResponseOnlyOnCaller ==
    [][ticks' = ticks + 1 =>
          \A g \in {updateGrid(positions)} :
              EveryTurn(OnlyCallerChanged, TickStore, g, 1, ticks + 1)]_vars

(* in the latest tick one entity bounced off an overlapping candidate and  *)
(* another entity split                                                    *)
BounceAndSplitInOneTick ==
    \E i, j \in Entities :
        /\ i # j
        /\ meta[i].born < ticks
        /\ meta[i].hits >= 1
        /\ \A c \in Entities : meta[c].born = ticks => meta[c].parent # i
        /\ \E c \in Entities : meta[c].born = ticks /\ meta[c].parent = j

(* C28: right after splitCube(p), before any movement, each of the eight   *)
(* children overlaps the parent under the test of checkCollisions, and no  *)
(* two children overlap each other.                                        *)
ChildrenOverlapParentOnly ==
    Len(positions) = 1 + NumChildren =>
        /\ \A c \in 2..Len(positions) : OverlapDouble(positions[c], positions[1])
        /\ \A c, d \in 2..Len(positions) :
              c # d => ~OverlapDouble(positions[c], positions[d])

(* the five arrays of the simulation have one entry per entity *)
Aligned(st) ==
    /\ Len(st.angles) = Len(st.positions)
    /\ Len(st.speeds) = Len(st.positions)
    /\ Len(st.colors) = Len(st.positions)
    /\ Len(st.directions) = Len(st.positions)

AlignedAfterCall(ts, g, i, r) == Aligned(ts) /\ Aligned(r.st)

(* C29: positions, angles, speeds, colors and directions have the same     *)
(* length before and after every step, and inside a tick before and after  *)
(* every call of checkCollisions, the calls that split included.           *)
ArraysIndexAligned ==
    [][/\ Aligned(Store)
       /\ Aligned(Store)'
       /\ ticks' = ticks + 1 =>
             \A g \in {updateGrid(positions)} :
                 EveryTurn(AlignedAfterCall, TickStore, g, 1, ticks + 1)]_vars

(* the latest tick appended entities to the five arrays, twice or more,    *)
(* and the arrays have one entry for each entity                           *)
ArraysGrownTogether ==
    /\ Aligned(Store)
    /\ \E c, d \in Entities :
          /\ meta[c].born = ticks
          /\ meta[d].born = ticks
          /\ meta[c].parent # meta[d].parent
          /\ Len(colors) >= d

(* the step of the colour state c lies in [0, 1) *)
StepInUnitInterval(c) == ~c.step.neg /\ DoubleLess(c.step, Halves(2))

(* C30: every call of updateColorTransition leaves step in [0, 1).  The    *)
(* step grows by the fixed delta at each call; the call at which it        *)
(* reaches 1 assigns a new random target and resets it to 0, which is      *)
(* every call number StepsPerTransition from the creation of the entity,   *)
(* and every other call leaves the target as it was.                       *)
RetargetEveryTwoHundredCalls ==
    [][ticks' = ticks + 1 =>
          /\ StepInUnitInterval(colors'[1])
          /\ IF ticks' % StepsPerTransition = 0
             THEN /\ colors'[1].step = Halves(0)
                  /\ colors'[1].target = getRandomColor(randomState).color
                  /\ randomState' = getRandomColor(randomState).rng
             ELSE /\ colors'[1].step = DoubleAdd(colors[1].step, StepDelta)
                  /\ colors'[1].step # Halves(0)
                  /\ colors'[1].target = colors[1].target
                  /\ randomState' = randomState]_vars

(* the step has been reset by call number StepsPerTransition, with a       *)
(* target other than the first one, and has grown again by one delta       *)
RetargetedAtCallTwoHundred ==
    /\ ticks = StepsPerTransition + 1
    /\ colors[1].step = StepDelta
    /\ \E k \in 1..Len(ShippedConfig.positions) :
          /\ positions[1].hasSplit = FALSE
          /\ colors[1].target # InitColors(1, << >>, 13 * k).colors[1].target
          /\ speeds[1] = ShippedConfig.speeds[k]

====
